---- MODULE Spec2Model ----
(***************************************************************************)
(* A model of the transcript splitter (src/split.py) and of the record     *)
(* verifier (src/verify.py).                                               *)
(*                                                                         *)
(* Strings are sequences of one-character strings, so that strip, split,   *)
(* replace and join are computed character by character.  Each program     *)
(* part has its own specification:                                         *)
(*   SpecParse   parse_turns, one action per line of the transcript        *)
(*   SpecChunk   chunk_indices, one action per loop iteration              *)
(*   SpecSkel    make_skeleton followed by the record validator            *)
(*   SpecSplit   repeated runs of split.main with external record edits    *)
(*   SpecVerify  verify.main over an arbitrary directory content           *)
(***************************************************************************)
EXTENDS Integers, Sequences, FiniteSets, TLC

VARIABLES
    \* parse_turns
    text, pos, current, idx, turns, ppc,
    \* chunk_indices
    total_turns, chunk_size, overlap, ranges, start, ch_id, cpc,
    \* make_skeleton / validate_field
    schema, first_turn, last_turn, out, errors, spc,
    \* the file system shared by split.main and verify.main
    input_file, schema_file, chunks_dir, records_dir,
    \* split.main
    rpc, run_schema, run_turns, run_ranges, run_i, run_wrote, run_kept,
    \* verify.main
    vpc, exit_status, problems

parseVars == <<text, pos, current, idx, turns, ppc>>
chunkVars == <<total_turns, chunk_size, overlap, ranges, start, ch_id, cpc>>
skelVars == <<schema, first_turn, last_turn, out, errors, spc>>
fsVars == <<input_file, schema_file, chunks_dir, records_dir>>
runVars == <<rpc, run_schema, run_turns, run_ranges, run_i, run_wrote, run_kept>>
verifyVars == <<vpc, exit_status, problems>>
vars == <<parseVars, chunkVars, skelVars, fsVars, runVars, verifyVars>>

(***************************************************************************)
(* Bounds of the model.                                                    *)
(***************************************************************************)
MaxLines == 3
MaxTurns == 5
MaxChunk == 3
MaxFields == 2
MaxRunTurns == 2
MaxFiles == 2

Min(a, b) == IF a < b THEN a ELSE b
Max(a, b) == IF a > b THEN a ELSE b

SeqsUpTo(S, n) == UNION {[1..k -> S] : k \in 0..n}

(***************************************************************************)
(* Python string operations on sequences of characters.                    *)
(***************************************************************************)
IsSpace(c) == c \in {" ", "\n", "\t"}

RECURSIVE LStrip(_)
LStrip(s) == IF s # <<>> /\ IsSpace(Head(s)) THEN LStrip(Tail(s)) ELSE s

RECURSIVE RStrip(_)
RStrip(s) ==
    IF s # <<>> /\ IsSpace(s[Len(s)]) THEN RStrip(SubSeq(s, 1, Len(s) - 1)) ELSE s

\* str.strip()
Strip(s) == RStrip(LStrip(s))

\* "\n".join(lines)
RECURSIVE JoinLines(_)
JoinLines(ls) ==
    IF ls = <<>> THEN <<>>
    ELSE IF Len(ls) = 1 THEN ls[1]
    ELSE ls[1] \o <<"\n">> \o JoinLines(Tail(ls))

\* The index of the first occurrence of c in s, 0 when there is none.
RECURSIVE IndexOf(_, _, _)
IndexOf(s, c, i) ==
    IF i > Len(s) THEN 0 ELSE IF s[i] = c THEN i ELSE IndexOf(s, c, i + 1)

\* s.split(" ", 1)
SplitFirstSpace(s) ==
    LET i == IndexOf(s, " ", 1)
    IN IF i = 0 THEN <<s>> ELSE <<SubSeq(s, 1, i - 1), SubSeq(s, i + 1, Len(s))>>

\* s.replace(a, b) for one-character a and b
Replace(s, a, b) == [i \in 1..Len(s) |-> IF s[i] = a THEN b ELSE s[i]]

(***************************************************************************)
(* The transcript.  A line is what MSG_START_RE makes of it: a marker line *)
(* carries the three groups of the match (timestamp, raw speaker, inline   *)
(* remainder), every other line carries only its text.  The remainder of a *)
(* marker never starts with white space: ":\s*" consumes it greedily.      *)
(***************************************************************************)
Ts1 == <<"2","0","2","4","-","0","1","-","0","2"," ","1","0",":","0","0",":","0","0">>
Ts2 == <<"2","0","2","4","-","0","1","-","0","2"," ","1","0",":","0","5",":","3","0">>
\* "\s+" between the date and the time also admits a tab
Ts3 == <<"2","0","2","4","-","0","1","-","0","3","\t","0","9",":","0","0",":","0","0">>

Timestamps == {Ts1, Ts2, Ts3}

MarkerLines ==
    [marker : {TRUE}, timestamp : {Ts1, Ts2}, speaker : {<<"A">>, <<"B", " ">>},
     body : {<<>>, <<"h", " ">>}]

PlainLines == [marker : {FALSE}, timestamp : {<<>>}, speaker : {<<>>},
               body : {<<>>, <<" ", "x">>, <<"y">>}]

Lines == MarkerLines \cup PlainLines

\* MSG_START_RE.match(line)
MSG_START_RE(line) == line.marker

NoTurn == [open |-> FALSE]

(***************************************************************************)
(* parse_turns                                                             *)
(***************************************************************************)
\* Mutant of CloseTurn: the index is taken before it is incremented.
CloseTurnStaleIndex(cur, i) ==
    [idx |-> i - 1, timestamp |-> cur.timestamp, speaker |-> cur.speaker,
     content |-> Strip(JoinLines(cur.content_lines))]

\* Turn(idx=..., timestamp=..., speaker=..., content="\n".join(...).strip())
CloseTurn(cur, i) ==
    [idx |-> i, timestamp |-> cur.timestamp, speaker |-> cur.speaker,
     content |-> Strip(JoinLines(cur.content_lines))]

\* current = {"timestamp": ..., "speaker": speaker.strip(), "content_lines": ...}
OpenTurn(line) ==
    [open |-> TRUE, timestamp |-> line.timestamp, speaker |-> Strip(line.speaker),
     content_lines |-> IF line.body # <<>> THEN <<line.body>> ELSE <<>>]

\* Mutant of AppendLine: the line is put in front of the lines read so far.
AppendLineInFront(cur, line) ==
    [cur EXCEPT !.content_lines = <<line.body>> \o cur.content_lines]

\* current["content_lines"].append(line)
AppendLine(cur, line) ==
    [cur EXCEPT !.content_lines = Append(cur.content_lines, line.body)]

\* One iteration of the for loop: the state after reading `line`.
ParseLine(st, line) ==
    IF MSG_START_RE(line)
    THEN IF st.current.open
         THEN [current |-> OpenTurn(line), idx |-> st.idx + 1,
               turns |-> Append(st.turns, CloseTurn(st.current, st.idx + 1))]
         ELSE [st EXCEPT !.current = OpenTurn(line)]
    ELSE IF ~st.current.open
         THEN st
         ELSE [st EXCEPT !.current = AppendLine(st.current, line)]

\* The code after the loop.
ParseEnd(st) ==
    IF st.current.open
    THEN [current |-> st.current, idx |-> st.idx + 1,
          turns |-> Append(st.turns, CloseTurn(st.current, st.idx + 1))]
    ELSE st

ParseStart == [current |-> NoTurn, idx |-> 0, turns |-> <<>>]

RECURSIVE ParseFrom(_, _, _)
ParseFrom(st, ls, i) ==
    IF i > Len(ls) THEN ParseEnd(st) ELSE ParseFrom(ParseLine(st, ls[i]), ls, i + 1)

\* parse_turns(text), as a function of the lines of text
parse_turns(ls) == ParseFrom(ParseStart, ls, 1).turns

ParseState == [current |-> current, idx |-> idx, turns |-> turns]

ParseIdle ==
    /\ text = <<>> /\ pos = 1 /\ current = NoTurn /\ idx = 0 /\ turns = <<>>
    /\ ppc = "idle"

InitParseVars ==
    /\ text \in SeqsUpTo(Lines, MaxLines)
    /\ pos = 1
    /\ current = NoTurn
    /\ idx = 0
    /\ turns = <<>>
    /\ ppc = "loop"

SetParseState(st) ==
    /\ current' = st.current
    /\ idx' = st.idx
    /\ turns' = st.turns

\* A line that matches MSG_START_RE.
ParseMarkerLine ==
    /\ ppc = "loop" /\ pos <= Len(text)
    /\ MSG_START_RE(text[pos])
    /\ SetParseState(ParseLine(ParseState, text[pos]))
    /\ pos' = pos + 1
    /\ UNCHANGED <<text, ppc>>

\* A line that does not match: dropped before the first marker, appended after.
ParsePlainLine ==
    /\ ppc = "loop" /\ pos <= Len(text)
    /\ ~MSG_START_RE(text[pos])
    /\ SetParseState(ParseLine(ParseState, text[pos]))
    /\ pos' = pos + 1
    /\ UNCHANGED <<text, ppc>>

\* The end of the input: the open turn, if any, is closed.
ParseFinish ==
    /\ ppc = "loop" /\ pos > Len(text)
    /\ SetParseState(ParseEnd(ParseState))
    /\ ppc' = "done"
    /\ UNCHANGED <<text, pos>>

NextParse ==
    \/ ParseMarkerLine /\ UNCHANGED <<chunkVars, skelVars, fsVars, runVars, verifyVars>>
    \/ ParsePlainLine /\ UNCHANGED <<chunkVars, skelVars, fsVars, runVars, verifyVars>>
    \/ ParseFinish /\ UNCHANGED <<chunkVars, skelVars, fsVars, runVars, verifyVars>>

(***************************************************************************)
(* chunk_indices                                                           *)
(***************************************************************************)
\* Mutant of ChunkArgsInvalid: an overlap equal to the chunk size is let through.
ChunkArgsInvalidOffByOne(size, ov) == size <= 0 \/ ov < 0 \/ ov > size

\* The two argument checks: TRUE when chunk_indices raises ValueError.
ChunkArgsInvalid(size, ov) == size <= 0 \/ ov < 0 \/ ov >= size

\* Mutants of ChunkAdvance: one turn is skipped; the overlap is ignored; one
\* turn more than the overlap is repeated.
ChunkAdvanceSkipsOne(end, ov) == Max(end - ov, 0) + 1
ChunkAdvanceNoOverlap(end, ov) == Max(end, 0)
ChunkAdvanceOneBack(end, ov) == Max(end - ov - 1, 0)

\* start = max(end - overlap, 0)
ChunkAdvance(end, ov) == Max(end - ov, 0)

\* The body of the while loop, entered with st.start < total.
ChunkBody(st, total, size, ov) ==
    LET end == Min(st.start + size, total)
        emitted == Append(st.ranges, [ch_id |-> st.ch_id, start_i |-> st.start, end_i |-> end])
    IN IF end = total
       THEN [ranges |-> emitted, start |-> st.start, ch_id |-> st.ch_id + 1, broke |-> TRUE]
       ELSE [ranges |-> emitted, start |-> ChunkAdvance(end, ov), ch_id |-> st.ch_id + 1,
             broke |-> FALSE]

ChunkStart == [ranges |-> <<>>, start |-> 0, ch_id |-> 1, broke |-> FALSE]

RECURSIVE ChunkLoop(_, _, _, _)
ChunkLoop(st, total, size, ov) ==
    IF st.broke \/ ~(st.start < total) THEN st.ranges
    ELSE ChunkLoop(ChunkBody(st, total, size, ov), total, size, ov)

\* chunk_indices(total, size, ov) for arguments that pass the checks
chunk_indices(total, size, ov) == ChunkLoop(ChunkStart, total, size, ov)

ChunkIdle ==
    /\ total_turns = 0 /\ chunk_size = 1 /\ overlap = 0
    /\ ranges = <<>> /\ start = 0 /\ ch_id = 1 /\ cpc = "idle"

InitChunkVars ==
    /\ total_turns \in 0..MaxTurns
    /\ chunk_size \in -1..MaxChunk
    /\ overlap \in -1..MaxChunk
    /\ ranges = <<>>
    /\ start = 0
    /\ ch_id = 1
    /\ cpc = "check"

\* An argument check fails: ValueError, nothing is returned.
ChunkRaise ==
    /\ cpc = "check"
    /\ ChunkArgsInvalid(chunk_size, overlap)
    /\ cpc' = "raised"
    /\ UNCHANGED <<total_turns, chunk_size, overlap, ranges, start, ch_id>>

\* Both argument checks pass: the loop is entered.
ChunkEnter ==
    /\ cpc = "check"
    /\ ~ChunkArgsInvalid(chunk_size, overlap)
    /\ cpc' = "loop"
    /\ UNCHANGED <<total_turns, chunk_size, overlap, ranges, start, ch_id>>

\* One iteration of the while loop, ended by its break or by the advance of start.
ChunkIterate ==
    /\ cpc = "loop"
    /\ start < total_turns
    /\ Len(ranges) <= MaxTurns + 1
    /\ LET st == ChunkBody([ranges |-> ranges, start |-> start, ch_id |-> ch_id,
                            broke |-> FALSE], total_turns, chunk_size, overlap)
       IN /\ ranges' = st.ranges
          /\ start' = st.start
          /\ ch_id' = st.ch_id
          /\ cpc' = IF st.broke THEN "done" ELSE "loop"
    /\ UNCHANGED <<total_turns, chunk_size, overlap>>

\* The while condition is false: return ranges.
ChunkExit ==
    /\ cpc = "loop"
    /\ ~(start < total_turns)
    /\ cpc' = "done"
    /\ UNCHANGED <<total_turns, chunk_size, overlap, ranges, start, ch_id>>

NextChunk ==
    \/ ChunkRaise /\ UNCHANGED <<parseVars, skelVars, fsVars, runVars, verifyVars>>
    \/ ChunkEnter /\ UNCHANGED <<parseVars, skelVars, fsVars, runVars, verifyVars>>
    \/ ChunkIterate /\ UNCHANGED <<parseVars, skelVars, fsVars, runVars, verifyVars>>
    \/ ChunkExit /\ UNCHANGED <<parseVars, skelVars, fsVars, runVars, verifyVars>>

(***************************************************************************)
(* Values of a decoded document: None, a string, a list, a mapping.        *)
(***************************************************************************)
VNone == [kind |-> "none"]
VStr(s) == [kind |-> "str", s |-> s]
VList(items) == [kind |-> "list", items |-> items]
VDict(m) == [kind |-> "dict", m |-> m]

EmptyMap == [k \in {} |-> VNone]

\* d[k] = v on a mapping
MapPut(m, k, v) == [x \in DOMAIN m \cup {k} |-> IF x = k THEN v ELSE m[x]]

\* d.get(k)
MapGet(m, k) == IF k \in DOMAIN m THEN m[k] ELSE VNone

SeqRange(s) == {s[i] : i \in 1..Len(s)}

(***************************************************************************)
(* The schema: field specifications and the derived mapping.  An optional  *)
(* integer or pattern is the empty set when the key is absent.             *)
(***************************************************************************)
BaseField(t, r) ==
    [type |-> t, required |-> r, non_empty |-> FALSE, max_chars |-> {},
     pattern |-> {}, min_items |-> {}, max_items |-> {}, min_non_empty_items |-> {},
     dict_keys |-> <<>>, non_empty_any |-> FALSE]

\* (required, non_empty, max_chars, pattern)
StringFields ==
    {[BaseField("string", c[1]) EXCEPT !.non_empty = c[2], !.max_chars = c[3],
                                       !.pattern = c[4]] :
        c \in {<<FALSE, FALSE, {}, {}>>, <<TRUE, FALSE, {}, {}>>, <<TRUE, TRUE, {}, {}>>,
               <<FALSE, FALSE, {9}, {}>>, <<FALSE, FALSE, {}, {"date"}>>,
               <<TRUE, TRUE, {9}, {"date"}>>}}

\* (required, min_items, max_items, min_non_empty_items)
ListFields ==
    {[BaseField("list", c[1]) EXCEPT !.min_items = c[2], !.max_items = c[3],
                                     !.min_non_empty_items = c[4]] :
        c \in {<<FALSE, {}, {}, {}>>, <<TRUE, {}, {}, {}>>, <<TRUE, {1}, {}, {}>>,
               <<TRUE, {}, {0}, {1}>>}}

DictFields ==
    {[BaseField("dict", TRUE) EXCEPT !.dict_keys = ks, !.non_empty_any = nea] :
        ks \in {<<>>, <<"who", "where">>}, nea \in BOOLEAN}

\* a declared type the validator does not support
OtherFields == {BaseField("int", r) : r \in BOOLEAN}

FieldBodies == StringFields \cup ListFields \cup DictFields \cup OtherFields

FieldName(i) == <<"f", i>>

\* The i-th declared field: field names are unique within a schema.
NamedField(i, b) ==
    [name |-> FieldName(i), type |-> b.type, required |-> b.required,
     non_empty |-> b.non_empty, max_chars |-> b.max_chars, pattern |-> b.pattern,
     min_items |-> b.min_items, max_items |-> b.max_items,
     min_non_empty_items |-> b.min_non_empty_items, dict_keys |-> b.dict_keys,
     non_empty_any |-> b.non_empty_any]

FieldLists ==
    {[i \in 1..Len(bs) |-> NamedField(i, bs[i])] : bs \in SeqsUpTo(FieldBodies, MaxFields)}

DATE_RULE == "from_first_turn_date_ymd_slash"
RANGE_RULE == "from_first_last_turn_time_range"

OneBinding(n, fn) == [x \in {n} |-> fn]

\* schema["derived"]: no binding, a built-in rule, an unknown rule, an empty name,
\* a binding for a field that is not declared
DerivedMaps ==
    {EmptyMap, OneBinding(FieldName(1), DATE_RULE), OneBinding(FieldName(1), RANGE_RULE),
     OneBinding(FieldName(2), RANGE_RULE), OneBinding(FieldName(1), "bogus"),
     OneBinding(FieldName(1), ""), OneBinding(FieldName(0), "bogus")}

Schemas == [fields : FieldLists, derived : DerivedMaps]

TurnAt(ts) == [idx |-> 1, timestamp |-> ts, speaker |-> <<"A">>, content |-> <<>>]

(***************************************************************************)
(* The skeleton generator                                                  *)
(***************************************************************************)
\* _date_ymd_slash
date_ymd_slash(timestamp) == Replace(Strip(SplitFirstSpace(timestamp)[1]), "-", "/")

\* _time_hms
time_hms(timestamp) ==
    LET parts == SplitFirstSpace(timestamp)
    IN IF Len(parts) = 2 THEN Strip(parts[2]) ELSE <<>>

\* derived_value: [raised, value]; value is VNone for "return None"
derived_value(name, ft, lt, derived) ==
    LET fn == IF name \in DOMAIN derived THEN derived[name] ELSE ""
    IN IF fn = "" THEN [raised |-> FALSE, value |-> VNone]
       ELSE IF fn = DATE_RULE
            THEN [raised |-> FALSE, value |-> VStr(date_ymd_slash(ft.timestamp))]
       ELSE IF fn = RANGE_RULE
            THEN LET t1 == time_hms(ft.timestamp)
                     t2 == time_hms(lt.timestamp)
                 IN [raised |-> FALSE,
                     value |-> VStr(IF t2 = <<>> \/ t1 = t2 THEN t1 ELSE t1 \o <<"-">> \o t2)]
       ELSE [raised |-> TRUE, value |-> VNone]

\* Mutant of default_value_for_field: the dict default has no sub-key.
default_value_empty_dict(field) ==
    IF field.type = "string" THEN VStr(<<>>)
    ELSE IF field.type = "list" THEN VList(<<>>)
    ELSE IF field.type = "dict" THEN VDict(EmptyMap)
    ELSE VNone

\* default_value_for_field
default_value_for_field(field) ==
    IF field.type = "string" THEN VStr(<<>>)
    ELSE IF field.type = "list" THEN VList(<<>>)
    ELSE IF field.type = "dict" THEN VDict([k \in SeqRange(field.dict_keys) |-> VStr(<<>>)])
    ELSE VNone

\* The loop of make_skeleton from field i on: [raised, data].
RECURSIVE SkeletonFrom(_, _, _, _, _)
SkeletonFrom(sch, ft, lt, i, acc) ==
    IF i > Len(sch.fields) THEN [raised |-> FALSE, data |-> VDict(acc)]
    ELSE LET field == sch.fields[i]
             dv == derived_value(field.name, ft, lt, sch.derived)
         IN IF dv.raised THEN [raised |-> TRUE, data |-> VNone]
            ELSE SkeletonFrom(sch, ft, lt, i + 1,
                    MapPut(acc, field.name,
                           IF dv.value # VNone THEN dv.value
                           ELSE default_value_for_field(field)))

make_skeleton(sch, ft, lt) == SkeletonFrom(sch, ft, lt, 1, EmptyMap)

(***************************************************************************)
(* The record validator.  A violation is [kind, name, key, extra].         *)
(***************************************************************************)
Err(kind, name) == [kind |-> kind, name |-> name, key |-> "", extra |-> {}]

\* re.match(pattern, v) for the patterns of the model:
\* "date" is ^\d{4}/\d{2}/\d{2}$
Digits == {"0", "1", "2", "3", "4", "5", "6", "7", "8", "9"}
ReMatch(p, v) ==
    IF p = "date"
    THEN /\ Len(v) = 10
         /\ \A i \in 1..10 : IF i \in {5, 8} THEN v[i] = "/" ELSE v[i] \in Digits
    ELSE TRUE

\* sum(1 for x in value if isinstance(x, str) and x.strip())
NonEmptyItems(items) ==
    Cardinality({i \in 1..Len(items) : items[i].kind = "str" /\ Strip(items[i].s) # <<>>})

\* str(k): the keys of the model are strings
StrOf(k) == k

\* The string branch, for a value that is a string.
StringErrors(value, field) ==
    LET v == Strip(value.s)
    IN (IF field.non_empty /\ v = <<>> THEN <<Err("empty", field.name)>> ELSE <<>>)
       \o (IF \E m \in field.max_chars : Len(v) > m
           THEN <<Err("max_chars", field.name)>> ELSE <<>>)
       \o (IF \E pt \in field.pattern : ~ReMatch(pt, v)
           THEN <<Err("pattern", field.name)>> ELSE <<>>)

\* The list branch, for a value that is a list.
ListErrors(value, field) ==
    (IF \E m \in field.min_items : Len(value.items) < m
     THEN <<Err("min_items", field.name)>> ELSE <<>>)
    \o (IF \E m \in field.max_items : Len(value.items) > m
        THEN <<Err("max_items", field.name)>> ELSE <<>>)
    \o (IF \E m \in field.min_non_empty_items : NonEmptyItems(value.items) < m
        THEN <<Err("min_non_empty_items", field.name)>> ELSE <<>>)

\* for k in keys: if k not in value and str(k) not in value: ...
RECURSIVE DictKeyErrors(_, _, _)
DictKeyErrors(value, field, i) ==
    IF i > Len(field.dict_keys) THEN <<>>
    ELSE LET k == field.dict_keys[i]
         IN (IF k \notin DOMAIN value.m /\ StrOf(k) \notin DOMAIN value.m
             THEN <<[kind |-> "dict_missing_key", name |-> field.name, key |-> k,
                     extra |-> {}]>>
             ELSE <<>>)
            \o DictKeyErrors(value, field, i + 1)

\* The dict branch, for a value that is a mapping.
DictErrors(value, field) ==
    DictKeyErrors(value, field, 1)
    \o (IF field.non_empty_any
           /\ ~\E k \in DOMAIN value.m :
                  value.m[k].kind = "str" /\ Strip(value.m[k].s) # <<>>
        THEN <<Err("no_non_empty_values", field.name)>> ELSE <<>>)

\* validate_field
validate_field(value, field) ==
    IF value = VNone
    THEN IF field.required THEN <<Err("missing_key", field.name)>> ELSE <<>>
    ELSE IF field.type = "string"
         THEN IF value.kind # "str" THEN <<Err("not_string", field.name)>>
              ELSE StringErrors(value, field)
    ELSE IF field.type = "list"
         THEN IF value.kind # "list" THEN <<Err("not_list", field.name)>>
              ELSE ListErrors(value, field)
    ELSE IF field.type = "dict"
         THEN IF value.kind # "dict" THEN <<Err("not_dict", field.name)>>
              ELSE DictErrors(value, field)
    ELSE <<Err("unsupported_type", field.name)>>

RECURSIVE FieldErrorsFrom(_, _, _)
FieldErrorsFrom(data, fields, i) ==
    IF i > Len(fields) THEN <<>>
    ELSE validate_field(MapGet(data.m, fields[i].name), fields[i])
         \o FieldErrorsFrom(data, fields, i + 1)

\* The checks of validate_yaml_against_schema on a decoded mapping:
\* the extra keys, then every declared field.
ValidateMapping(data, sch) ==
    LET field_names == {sch.fields[i].name : i \in 1..Len(sch.fields)}
        extra_keys == {k \in DOMAIN data.m : k \notin field_names}
    IN (IF extra_keys # {}
        THEN <<[kind |-> "extra_keys", name |-> FieldName(0), key |-> "",
                extra |-> extra_keys]>>
        ELSE <<>>)
       \o FieldErrorsFrom(data, sch.fields, 1)

\* A record file holds text that does not decode, or a decoded document.
Undecodable == [decodes |-> FALSE, data |-> VNone]
\* yaml.safe_dump(data): the text decodes to data again
YamlDump(data) == [decodes |-> TRUE, data |-> data]

\* validate_yaml_against_schema
validate_yaml_against_schema(file, sch) ==
    IF ~file.decodes THEN <<Err("yaml_parse_error", FieldName(0))>>
    ELSE IF file.data.kind # "dict" THEN <<Err("root_not_mapping", FieldName(0))>>
    ELSE ValidateMapping(file.data, sch)

(***************************************************************************)
(* SpecSkel: a skeleton is generated and passed to the validator.          *)
(***************************************************************************)
SkelIdle ==
    /\ schema = [fields |-> <<>>, derived |-> EmptyMap]
    /\ first_turn = TurnAt(Ts1) /\ last_turn = TurnAt(Ts1)
    /\ out = VNone /\ errors = <<>> /\ spc = "idle"

TurnPairs == {<<Ts1, Ts1>>, <<Ts1, Ts2>>, <<Ts3, Ts2>>}

InitSkelVars ==
    /\ schema \in Schemas
    /\ \E tp \in TurnPairs : first_turn = TurnAt(tp[1]) /\ last_turn = TurnAt(tp[2])
    /\ out = VNone
    /\ errors = <<>>
    /\ spc = "make"

\* make_skeleton returns a record.
SkelMake ==
    /\ spc = "make"
    /\ LET r == make_skeleton(schema, first_turn, last_turn)
       IN /\ ~r.raised
          /\ out' = r.data
    /\ spc' = "made"
    /\ UNCHANGED <<schema, first_turn, last_turn, errors>>

\* make_skeleton raises ValueError: unknown derived function.
SkelRaise ==
    /\ spc = "make"
    /\ make_skeleton(schema, first_turn, last_turn).raised
    /\ spc' = "raised"
    /\ UNCHANGED <<schema, first_turn, last_turn, out, errors>>

\* The record is checked against the schema it was generated from.
SkelValidate ==
    /\ spc = "made"
    /\ errors' = ValidateMapping(out, schema)
    /\ spc' = "done"
    /\ UNCHANGED <<schema, first_turn, last_turn, out>>

NextSkel ==
    \/ SkelMake /\ UNCHANGED <<parseVars, chunkVars, fsVars, runVars, verifyVars>>
    \/ SkelRaise /\ UNCHANGED <<parseVars, chunkVars, fsVars, runVars, verifyVars>>
    \/ SkelValidate /\ UNCHANGED <<parseVars, chunkVars, fsVars, runVars, verifyVars>>

(***************************************************************************)
(* The files.  input/raw_chat.txt and schema.yaml exist or not; chunks/    *)
(* holds ch_NNNN.txt files, of which only the identifiers are kept (no     *)
(* code reads their text back); output/chapters/ maps the identifier of    *)
(* each ch_NNNN.yaml to its content.                                       *)
(***************************************************************************)
NoInput == [exists |-> FALSE, lines |-> <<>>]
NoSchema == [exists |-> FALSE, schema |-> [fields |-> <<>>, derived |-> EmptyMap]]
NoChunksDir == [exists |-> FALSE, files |-> {}]
NoRecordsDir == [exists |-> FALSE, files |-> EmptyMap]

\* A transcript of n turns: a line before the first marker, then n marker lines,
\* the first of them followed by a continuation line.
RunLine(k) ==
    [marker |-> TRUE, timestamp |-> IF k = 1 THEN Ts1 ELSE Ts2, speaker |-> <<"A">>,
     body |-> <<"h", " ">>]
JunkLine == [marker |-> FALSE, timestamp |-> <<>>, speaker |-> <<>>, body |-> <<"y">>]
RunTranscript(n) == <<JunkLine>> \o [k \in 1..n |-> RunLine(k)]

\* The schemas of the runs: one string field, and a derived mapping.
SummaryField == NamedField(1, BaseField("string", TRUE))
RunSchemas ==
    {[fields |-> <<SummaryField>>, derived |-> d] :
        d \in {EmptyMap, OneBinding(FieldName(1), DATE_RULE),
               OneBinding(FieldName(1), "bogus"), OneBinding(FieldName(0), "bogus")}}

\* What an editor leaves in a record file: the summary filled in.
FilledRecord == YamlDump(VDict(OneBinding(FieldName(1), VStr(<<"o", "k">>))))

TURNS_PER_CHUNK == 10
OVERLAP_TURNS == 0

\* The chunk parameters of a run: the shipped configuration and edits of it.
RunChunkParams ==
    {<<TURNS_PER_CHUNK, OVERLAP_TURNS>>}
    \cup {<<sz, ov>> : sz \in 1..MaxRunTurns, ov \in 0..1}

(***************************************************************************)
(* split.main                                                              *)
(***************************************************************************)
\* Mutant of ShouldWriteRecord: the existence check is gone.
ShouldWriteAlways(files, id) == TRUE

\* if not path.exists(): the record file of ch_id is written only then
ShouldWriteRecord(files, id) == id \notin DOMAIN files

\* write_memory_yaml on the files of output/chapters/:
\* [raised, files], files unchanged when the record exists
write_memory_yaml(files, id, sch, ft, lt) ==
    IF ShouldWriteRecord(files, id)
    THEN LET sk == make_skeleton(sch, ft, lt)
         IN IF sk.raised THEN [raised |-> TRUE, files |-> files]
            ELSE [raised |-> FALSE, files |-> MapPut(files, id, YamlDump(sk.data))]
    ELSE [raised |-> FALSE, files |-> files]

\* write_chunk_file on the files of chunks/
write_chunk_file(files, id) == files \cup {id}

\* turns[r["start_i"] : r["end_i"]]
ChunkTurns(ts, r) == SubSeq(ts, r.start_i + 1, r.end_i)

RunIdle ==
    /\ rpc = "idle" /\ run_schema = NoSchema.schema /\ run_turns = <<>>
    /\ run_ranges = <<>> /\ run_i = 1 /\ run_wrote = {} /\ run_kept = {}

FsEmpty ==
    /\ input_file = NoInput /\ schema_file = NoSchema
    /\ chunks_dir = NoChunksDir /\ records_dir = NoRecordsDir

RunResting == rpc \in {"idle", "done", "aborted_input", "aborted_schema", "aborted_empty",
                       "aborted_args", "aborted_derived"}

ResetRun(pc) ==
    /\ rpc' = pc
    /\ run_schema' = NoSchema.schema /\ run_turns' = <<>> /\ run_ranges' = <<>>
    /\ run_i' = 1 /\ run_wrote' = {} /\ run_kept' = {}

\* main raises before its loop: a missing input or schema file, no turn parsed,
\* or chunk parameters that chunk_indices rejects.
RunAbortEarly ==
    /\ RunResting
    /\ \E prm \in RunChunkParams :
         LET ts == parse_turns(input_file.lines)
         IN \/ ~input_file.exists /\ ResetRun("aborted_input")
            \/ input_file.exists /\ ~schema_file.exists /\ ResetRun("aborted_schema")
            \/ /\ input_file.exists /\ schema_file.exists /\ ts = <<>>
               /\ ResetRun("aborted_empty")
            \/ /\ input_file.exists /\ schema_file.exists /\ ts # <<>>
               /\ ChunkArgsInvalid(prm[1], prm[2])
               /\ ResetRun("aborted_args")
    /\ UNCHANGED fsVars

\* main up to its loop: the schema is loaded, the turns are parsed, the ranges
\* are computed and both directories are created.
RunBegin ==
    /\ RunResting
    /\ input_file.exists /\ schema_file.exists
    /\ \E prm \in RunChunkParams :
         LET ts == parse_turns(input_file.lines)
         IN /\ ts # <<>>
            /\ ~ChunkArgsInvalid(prm[1], prm[2])
            /\ run_turns' = ts
            /\ run_ranges' = chunk_indices(Len(ts), prm[1], prm[2])
    /\ run_schema' = schema_file.schema
    /\ run_i' = 1 /\ run_wrote' = {} /\ run_kept' = {}
    /\ chunks_dir' = [chunks_dir EXCEPT !.exists = TRUE]
    /\ records_dir' = [records_dir EXCEPT !.exists = TRUE]
    /\ rpc' = "chunk"
    /\ UNCHANGED <<input_file, schema_file>>

\* write_chunk_file(chunk_turns, ch_id, CHUNKS_DIR)
RunWriteChunk ==
    /\ rpc = "chunk"
    /\ LET r == run_ranges[run_i]
       IN /\ ChunkTurns(run_turns, r) # <<>>
          /\ chunks_dir' = [exists |-> TRUE, files |-> write_chunk_file(chunks_dir.files, r.ch_id)]
          /\ run_wrote' = run_wrote \cup {<<"txt", r.ch_id>>}
    /\ rpc' = "record"
    /\ UNCHANGED <<input_file, schema_file, records_dir, run_schema, run_turns, run_ranges,
                   run_i, run_kept>>

\* write_memory_yaml(ch_id, schema, chunk_turns[0], chunk_turns[-1], OUT_CHAPTERS_DIR),
\* returning normally.
RunWriteRecord ==
    /\ rpc = "record"
    /\ LET r == run_ranges[run_i]
           ct == ChunkTurns(run_turns, r)
           w == write_memory_yaml(records_dir.files, r.ch_id, run_schema, ct[1], ct[Len(ct)])
       IN /\ ~w.raised
          /\ records_dir' = [exists |-> TRUE, files |-> w.files]
          /\ IF r.ch_id \in DOMAIN records_dir.files
             THEN run_kept' = run_kept \cup {r.ch_id} /\ run_wrote' = run_wrote
             ELSE run_kept' = run_kept /\ run_wrote' = run_wrote \cup {<<"yaml", r.ch_id>>}
    /\ run_i' = run_i + 1
    /\ rpc' = IF run_i = Len(run_ranges) THEN "summary" ELSE "chunk"
    /\ UNCHANGED <<input_file, schema_file, chunks_dir, run_schema, run_turns, run_ranges>>

\* After the last range main prints its summary and the process ends.
RunEnd ==
    /\ rpc = "summary"
    /\ ResetRun("done")
    /\ UNCHANGED fsVars

\* write_memory_yaml raises out of make_skeleton: unknown derived function.
RunAbortDerived ==
    /\ rpc = "record"
    /\ LET r == run_ranges[run_i]
           ct == ChunkTurns(run_turns, r)
       IN write_memory_yaml(records_dir.files, r.ch_id, run_schema, ct[1], ct[Len(ct)]).raised
    /\ rpc' = "aborted_derived"
    /\ UNCHANGED <<fsVars, run_schema, run_turns, run_ranges, run_i, run_wrote, run_kept>>

(***************************************************************************)
(* The collaborators outside the program: whoever puts the transcript and  *)
(* the schema in place, and whoever edits or deletes record files.  A run  *)
(* reads the transcript and the schema once, before its loop, so replacing *)
(* them during a run is the same as replacing them right after it; record  *)
(* files are edited and deleted at any time, also between two steps of a   *)
(* run.                                                                    *)
(***************************************************************************)
ExtPutInput ==
    /\ RunResting
    /\ \E n \in 0..MaxRunTurns :
         input_file' = [exists |-> TRUE, lines |-> RunTranscript(n)]
    /\ UNCHANGED <<schema_file, chunks_dir, records_dir, runVars>>

ExtPutSchema ==
    /\ RunResting
    /\ \E sch \in RunSchemas : schema_file' = [exists |-> TRUE, schema |-> sch]
    /\ UNCHANGED <<input_file, chunks_dir, records_dir, runVars>>

ExtEditRecord ==
    /\ records_dir.exists
    /\ \E id \in 1..MaxRunTurns :
         records_dir' = [records_dir EXCEPT
                            !.files = MapPut(records_dir.files, id, FilledRecord)]
    /\ UNCHANGED <<input_file, schema_file, chunks_dir, runVars>>

ExtDeleteRecord ==
    /\ \E id \in DOMAIN records_dir.files :
         records_dir' = [records_dir EXCEPT
                            !.files = [x \in DOMAIN records_dir.files \ {id} |->
                                          records_dir.files[x]]]
    /\ UNCHANGED <<input_file, schema_file, chunks_dir, runVars>>

NextSplit ==
    \/ RunAbortEarly /\ UNCHANGED <<parseVars, chunkVars, skelVars, verifyVars>>
    \/ RunBegin /\ UNCHANGED <<parseVars, chunkVars, skelVars, verifyVars>>
    \/ RunWriteChunk /\ UNCHANGED <<parseVars, chunkVars, skelVars, verifyVars>>
    \/ RunWriteRecord /\ UNCHANGED <<parseVars, chunkVars, skelVars, verifyVars>>
    \/ RunAbortDerived /\ UNCHANGED <<parseVars, chunkVars, skelVars, verifyVars>>
    \/ RunEnd /\ UNCHANGED <<parseVars, chunkVars, skelVars, verifyVars>>
    \/ ExtPutInput /\ UNCHANGED <<parseVars, chunkVars, skelVars, verifyVars>>
    \/ ExtPutSchema /\ UNCHANGED <<parseVars, chunkVars, skelVars, verifyVars>>
    \/ ExtEditRecord /\ UNCHANGED <<parseVars, chunkVars, skelVars, verifyVars>>
    \/ ExtDeleteRecord /\ UNCHANGED <<parseVars, chunkVars, skelVars, verifyVars>>

(***************************************************************************)
(* verify.main                                                             *)
(***************************************************************************)
VerifyIdle == vpc = "idle" /\ exit_status = 0 /\ problems = 0

VerifySchemas ==
    {[fields |-> <<[SummaryField EXCEPT !.non_empty = ne]>>, derived |-> EmptyMap] :
        ne \in BOOLEAN}

\* What a record file may hold when the verifier runs: an untouched skeleton,
\* a filled record, a document that is no mapping, text that does not decode.
RecordContents ==
    {FilledRecord, Undecodable}
    \cup {YamlDump(make_skeleton(sch, TurnAt(Ts1), TurnAt(Ts2)).data) : sch \in VerifySchemas}
    \cup {YamlDump(VList(<<>>))}

FileIds == 1..MaxFiles

InitVerifyFs ==
    /\ input_file = NoInput
    /\ schema_file \in {NoSchema} \cup {[exists |-> TRUE, schema |-> sch] : sch \in VerifySchemas}
    /\ chunks_dir \in {NoChunksDir} \cup {[exists |-> TRUE, files |-> S] : S \in SUBSET FileIds}
    /\ records_dir \in {NoRecordsDir}
          \cup {[exists |-> TRUE, files |-> f] :
                   f \in UNION {[S -> RecordContents] : S \in SUBSET FileIds}}

\* missing_yaml = sorted(chunk_ids - yaml_ids)
missing_yaml(chunk_ids, yaml_ids) == chunk_ids \ yaml_ids

\* extra_yaml = sorted(yaml_ids - chunk_ids)
extra_yaml(chunk_ids, yaml_ids) == yaml_ids \ chunk_ids

\* bad: the record files with at least one violation
bad_yaml(files, sch) ==
    {y \in DOMAIN files : validate_yaml_against_schema(files[y], sch) # <<>>}

\* problems = len(missing_yaml) + len(bad)
ProblemCount(chunk_ids, files, sch) ==
    Cardinality(missing_yaml(chunk_ids, DOMAIN files)) + Cardinality(bad_yaml(files, sch))

\* return 1 if problems else 0
ExitFor(n) == IF n # 0 THEN 1 ELSE 0

\* A directory or the schema file is missing: return 2, no summary line.
VerifyMissing ==
    /\ vpc = "start"
    /\ ~chunks_dir.exists \/ ~records_dir.exists \/ ~schema_file.exists
    /\ exit_status' = 2
    /\ problems' = 0
    /\ vpc' = "missing"
    /\ UNCHANGED fsVars

\* The scan of both directories, the validation of every record, the summary.
VerifyReport ==
    /\ vpc = "start"
    /\ chunks_dir.exists /\ records_dir.exists /\ schema_file.exists
    /\ problems' = ProblemCount(chunks_dir.files, records_dir.files, schema_file.schema)
    /\ exit_status' = ExitFor(problems')
    /\ vpc' = "reported"
    /\ UNCHANGED fsVars

NextVerify ==
    \/ VerifyMissing /\ UNCHANGED <<parseVars, chunkVars, skelVars, runVars>>
    \/ VerifyReport /\ UNCHANGED <<parseVars, chunkVars, skelVars, runVars>>

(***************************************************************************)
(* The specifications                                                      *)
(***************************************************************************)
InitParse == InitParseVars /\ ChunkIdle /\ SkelIdle /\ FsEmpty /\ RunIdle /\ VerifyIdle
SpecParse == InitParse /\ [][NextParse]_vars

InitChunk == ParseIdle /\ InitChunkVars /\ SkelIdle /\ FsEmpty /\ RunIdle /\ VerifyIdle
SpecChunk == InitChunk /\ [][NextChunk]_vars
\* The loop is sequential code: an enabled iteration is eventually taken.
FairSpecChunk == SpecChunk /\ WF_vars(NextChunk)

InitSkel == ParseIdle /\ ChunkIdle /\ InitSkelVars /\ FsEmpty /\ RunIdle /\ VerifyIdle
SpecSkel == InitSkel /\ [][NextSkel]_vars

InitSplit == ParseIdle /\ ChunkIdle /\ SkelIdle /\ FsEmpty /\ RunIdle /\ VerifyIdle
SpecSplit == InitSplit /\ [][NextSplit]_vars

InitVerify ==
    /\ ParseIdle /\ ChunkIdle /\ SkelIdle /\ RunIdle /\ InitVerifyFs
    /\ vpc = "start" /\ exit_status = 0 /\ problems = 0
SpecVerify == InitVerify /\ [][NextVerify]_vars

(***************************************************************************)
(* Properties of parse_turns (SpecParse)                                   *)
(***************************************************************************)
MarkerPositions(ls) == {i \in 1..Len(ls) : ls[i].marker}

\* The position of the k-th marker line of ls.
KthMarker(ls, k) ==
    CHOOSE p \in MarkerPositions(ls) :
        Cardinality({q \in MarkerPositions(ls) : q <= p}) = k

\* The position of the first marker after position p, Len(ls) + 1 when none follows.
NextMarker(ls, p) ==
    IF \E q \in MarkerPositions(ls) : q > p
    THEN CHOOSE q \in MarkerPositions(ls) :
            q > p /\ \A x \in MarkerPositions(ls) : x > p => q <= x
    ELSE Len(ls) + 1

\* The lines of the k-th turn: the non-empty inline remainder of its marker, then
\* the lines up to the next marker, in input order.
AttributedLines(ls, k) ==
    LET p == KthMarker(ls, k)
        q == NextMarker(ls, p)
    IN (IF ls[p].body # <<>> THEN <<ls[p].body>> ELSE <<>>)
       \o [j \in 1..(q - p - 1) |-> ls[p + j].body]

\* c is j without its leading and trailing white space, and nothing else removed.
IsTrimOf(c, j) ==
    \E a \in 0..Len(j) : \E b \in a..Len(j) :
        /\ c = SubSeq(j, a + 1, b)
        /\ \A i \in 1..a : IsSpace(j[i])
        /\ \A i \in (b + 1)..Len(j) : IsSpace(j[i])
        /\ c # <<>> => ~IsSpace(c[1]) /\ ~IsSpace(c[Len(c)])

\* C2: a transcript with N marker lines yields exactly N turns; the k-th turn has
\* index k and the timestamp and (trimmed) speaker of the k-th marker line; no
\* marker, no turn.
C2_TurnPerMarker ==
    ppc = "done" =>
        /\ Len(turns) = Cardinality(MarkerPositions(text))
        /\ \A k \in 1..Len(turns) :
              /\ turns[k].idx = k
              /\ turns[k].timestamp = text[KthMarker(text, k)].timestamp
              /\ IsTrimOf(turns[k].speaker, text[KthMarker(text, k)].speaker)

\* Three lines, two of them markers with different timestamps and speakers,
\* parsed to the end.
C2_Witness ==
    /\ ppc = "done" /\ Len(text) = 3 /\ Len(turns) = 2
    /\ turns[1].timestamp # turns[2].timestamp
    /\ turns[1].speaker # turns[2].speaker

\* C6: a line before the first marker is in no turn; every later non-marker line
\* belongs to the turn of the nearest marker before it, after that marker's inline
\* remainder and in input order; the content is the newline-join of these lines
\* with only leading and trailing white space removed.
C6_LinesAttributed ==
    ppc = "done" =>
        \A k \in 1..Len(turns) :
            k <= Cardinality(MarkerPositions(text))
            /\ IsTrimOf(turns[k].content, JoinLines(AttributedLines(text, k)))

\* A dropped line, then a marker with an inline remainder and a continuation
\* line: the content keeps the line break between them.
C6_Witness ==
    /\ ppc = "done" /\ Len(text) = 3
    /\ ~text[1].marker /\ text[1].body # <<>>
    /\ text[2].marker /\ text[2].body # <<>>
    /\ ~text[3].marker /\ text[3].body = <<"y">>
    /\ Len(turns) = 1
    /\ turns[1].content = <<"h", " ", "\n", "y">>

(***************************************************************************)
(* Properties of chunk_indices (SpecChunk, FairSpecChunk)                  *)
(***************************************************************************)
Covering(t) == {i \in 1..Len(ranges) : ranges[i].start_i <= t /\ t < ranges[i].end_i}

\* C3: with overlap 0 and a valid chunk size the ranges tile [0, total_turns):
\* the first starts at 0, each next one starts where the previous ended, the last
\* ends at total_turns, every turn index is in exactly one range, identifiers are
\* 1, 2, 3, ...; no turn, no range.
C3_TilesWithoutOverlap ==
    (cpc = "done" /\ overlap = 0) =>
        /\ total_turns = 0 => ranges = <<>>
        /\ total_turns > 0 =>
              /\ ranges # <<>>
              /\ ranges[1].start_i = 0
              /\ ranges[Len(ranges)].end_i = total_turns
        /\ \A i \in 2..Len(ranges) : ranges[i].start_i = ranges[i - 1].end_i
        /\ \A i \in 1..Len(ranges) : ranges[i].ch_id = i
        /\ \A t \in 0..(total_turns - 1) : Cardinality(Covering(t)) = 1

\* Three ranges or more without overlap, the last one shorter than the others.
C3_Witness ==
    /\ cpc = "done" /\ overlap = 0 /\ Len(ranges) >= 3
    /\ ranges[Len(ranges)].end_i - ranges[Len(ranges)].start_i < chunk_size

\* C4: chunk_indices raises, and returns no range, exactly when chunk_size <= 0,
\* overlap < 0 or overlap >= chunk_size, whatever total_turns is.
C4_RaisesOnBadArguments ==
    cpc # "check" =>
        /\ cpc = "raised" <=> (chunk_size <= 0 \/ overlap < 0 \/ overlap >= chunk_size)
        /\ cpc = "raised" => ranges = <<>>

\* The error for an overlap equal to a positive chunk size, with no turn at all.
C4_Witness ==
    cpc = "raised" /\ chunk_size > 0 /\ overlap = chunk_size /\ total_turns = 0

\* C5: with 0 < overlap < chunk_size and at least one turn, every range is
\* non-empty and ends at or before total_turns, the last one ends at total_turns,
\* and each non-final range is followed by one that starts overlap turns before
\* its end and reaches past its end: the last overlap turns of the one are the
\* first overlap turns of the other, and every turn index is covered.
C5_OverlapRepeatsBoundaryTurns ==
    (cpc = "done" /\ total_turns >= 1 /\ 0 < overlap /\ overlap < chunk_size) =>
        /\ ranges # <<>>
        /\ ranges[Len(ranges)].end_i = total_turns
        /\ \A i \in 1..Len(ranges) :
              ranges[i].start_i < ranges[i].end_i /\ ranges[i].end_i <= total_turns
        /\ \A i \in 1..(Len(ranges) - 1) :
              /\ ranges[i + 1].start_i = ranges[i].end_i - overlap
              /\ ranges[i + 1].start_i >= 0
              /\ ranges[i + 1].end_i > ranges[i].end_i
              /\ ranges[i + 1].end_i - ranges[i + 1].start_i >= overlap
        /\ \A t \in 0..(total_turns - 1) : Covering(t) # {}

\* Three ranges or more, two turns shared by neighbours.
C5_Witness ==
    cpc = "done" /\ overlap = 2 /\ Len(ranges) >= 3

\* C10: the loop ends for valid arguments: an iteration that does not leave the
\* loop moves start strictly forward, never more ranges than turns are emitted,
\* and a loop that is entered is left with cpc = "done".
C10_LoopTerminates ==
    /\ [][(cpc = "loop" /\ cpc' = "loop") => start' > start]_vars
    /\ [](Len(ranges) <= total_turns)
    /\ (cpc = "loop") ~> (cpc = "done")

\* As many ranges as turns: every iteration advanced start by exactly one.
C10_Witness ==
    cpc = "done" /\ total_turns >= 3 /\ Len(ranges) = total_turns /\ chunk_size = 1

(***************************************************************************)
(* Properties of make_skeleton and the validator (SpecSkel)                *)
(***************************************************************************)
ContentKinds ==
    {"empty", "max_chars", "pattern", "min_items", "max_items", "min_non_empty_items",
     "no_non_empty_values"}

SupportedTypes == {"string", "list", "dict"}

FieldNamed(n) == CHOOSE i \in 1..Len(schema.fields) : schema.fields[i].name = n

\* The derived mapping binds a rule to the field, and the rule name is not empty.
HasDerivation(f) == f.name \in DOMAIN schema.derived /\ schema.derived[f.name] # ""

NoContentConstraint(f) ==
    /\ ~f.non_empty /\ f.max_chars = {} /\ f.pattern = {}
    /\ f.min_items = {} /\ f.max_items = {} /\ f.min_non_empty_items = {}
    /\ ~f.non_empty_any

\* A schema whose skeleton is valid as generated.
PlainSchema ==
    \A i \in 1..Len(schema.fields) :
        LET f == schema.fields[i]
        IN /\ NoContentConstraint(f)
           /\ f.required => f.type \in SupportedTypes
           /\ HasDerivation(f) => f.type = "string"

\* C7 as stated: the skeleton of any schema passes the validator without violation.
C7_SkeletonAlwaysValid == spc = "done" => errors = <<>>

\* C7 amended: the skeleton has no extra key, no missing dict key and no default of
\* the wrong type; a violation is a content constraint the fresh value fails, the
\* missing key of a required field of unsupported type, or the type violation of a
\* derived string on a field that is no string field; so a schema without content
\* constraints, without required fields of unsupported type and with derivations
\* on string fields only yields no violation.
C7_SkeletonViolations ==
    spc = "done" =>
        /\ \A j \in 1..Len(errors) :
              LET e == errors[j]
              IN /\ e.kind # "extra_keys"
                 /\ \E i \in 1..Len(schema.fields) : schema.fields[i].name = e.name
                 /\ LET f == schema.fields[FieldNamed(e.name)]
                    IN \/ e.kind \in ContentKinds /\ ~NoContentConstraint(f)
                       \/ /\ e.kind = "missing_key"
                          /\ f.required /\ f.type \notin SupportedTypes
                          /\ ~HasDerivation(f)
                       \/ /\ e.kind \in {"not_list", "not_dict", "unsupported_type"}
                          /\ HasDerivation(f) /\ f.type # "string"
        /\ PlainSchema => errors = <<>>

\* A derived string field and a dict field with sub-keys, validated without
\* violation.
C7_Witness ==
    /\ spc = "done" /\ errors = <<>> /\ PlainSchema
    /\ Len(schema.fields) = 2
    /\ HasDerivation(schema.fields[1])
    /\ schema.fields[2].type = "dict" /\ schema.fields[2].dict_keys # <<>>
    /\ out.m[FieldName(1)] = VStr(<<"1","0",":","0","0",":","0","0","-","1","0",":","0","5",":","3","0">>)

(***************************************************************************)
(* Properties of split.main (SpecSplit)                                    *)
(***************************************************************************)
\* C1: a step of a split run never changes or removes a record file that exists
\* when the step is taken: write_memory_yaml writes only where no file is.
C1_WriteOnceIfAbsent ==
    [][runVars' # runVars =>
          \A id \in DOMAIN records_dir.files :
              /\ id \in DOMAIN records_dir'.files
              /\ records_dir'.files[id] = records_dir.files[id]]_vars

\* A run of two chunks met the record of chunk 1 in place and kept it; the record
\* holds what the editor left.
C1_Witness ==
    /\ rpc = "chunk" /\ run_i = 2 /\ Len(run_ranges) = 2
    /\ 1 \in run_kept
    /\ 1 \in DOMAIN records_dir.files
    /\ records_dir.files[1] = FilledRecord
    /\ run_schema.derived # EmptyMap

UnknownRule(sch) ==
    \E n \in DOMAIN sch.derived : sch.derived[n] \notin {DATE_RULE, RANGE_RULE}

\* C9: a run whose schema binds an unknown derivation rule aborts before it
\* writes any chunk or record file, and never ends normally.
C9_UnknownRuleAbortsBeforeWriting ==
    (rpc \in {"chunk", "record", "summary", "aborted_derived"} /\ UnknownRule(run_schema)) =>
        /\ run_wrote = {}
        /\ rpc # "summary"

(***************************************************************************)
(* Properties of verify.main (SpecVerify)                                  *)
(***************************************************************************)
ChunkWithoutRecord == chunks_dir.files \ DOMAIN records_dir.files
RecordWithoutChunk == DOMAIN records_dir.files \ chunks_dir.files
RecordWithViolation ==
    {y \in DOMAIN records_dir.files :
        validate_yaml_against_schema(records_dir.files[y], schema_file.schema) # <<>>}

\* C8: the exit status is nonzero when a directory or the schema file is missing,
\* or when a chunk has no record, a record has no chunk, or a record has a
\* violation; it is zero otherwise, and the summary counts every file with such a
\* problem.
C8_ExitStatusReflectsProblems ==
    /\ vpc = "missing" => exit_status # 0
    /\ vpc = "reported" =>
          /\ exit_status # 0 <=>
                (ChunkWithoutRecord # {} \/ RecordWithoutChunk # {} \/ RecordWithViolation # {})
          /\ problems >= Cardinality(ChunkWithoutRecord)
                           + Cardinality(RecordWithoutChunk \cup RecordWithViolation)

====
